---- MODULE Spec2Model ----
(***************************************************************************)
(* A model of the klave command line tool: the build command               *)
(* (src/commands/build.rs), the top-level handler (src/main.rs) and the    *)
(* template engine (src/util/template.rs).                                 *)
(***************************************************************************)
EXTENDS Integers, Sequences, FiniteSets, TLC

\* ------------------------------------------------------------------ bounds

\* The largest number of entries of the "applications" array of klave.json.
MaxApps == 2

\* The longest text of a file given to update_file.
MaxLen == 4

\* ------------------------------------------------------------- input sets

\* An absent JSON field, an unset option, no error.
NoVal == "<none>"

\* What an application's root directory looks like on disk: it does not
\* exist, it holds neither marker file, Cargo.toml only, tsconfig.json only,
\* or both.
DirKinds == {"missing", "plain", "cargo", "ts", "both"}

\* The (slug, name) pairs of a manifest entry: a field is a string or absent
\* (a field that is not a JSON string reads as absent, as_str() gives None).
IdentPairs == {<<"a", NoVal>>, <<"b", "a">>, <<NoVal, "b">>, <<NoVal, NoVal>>}

\* The (slug, name) pairs of the manifests of the build-loop specification.
LoopIdentPairs == {<<"a", NoVal>>, <<NoVal, NoVal>>}

AppRecords(pairs, kinds) ==
    {[slug |-> p[1], name |-> p[2], dir |-> d] : p \in pairs, d \in kinds}

\* The sequences over S of length at most n.
SeqsUpTo(S, n) == UNION {[1..k -> S] : k \in 0..n}

\* What klave.json is when the command starts.
ConfigStates == {"absent", "unreadable", "badjson", "noarray", "ok"}

\* How a child process ends: exit status 0, a non-zero exit status, or it
\* could not be spawned at all.
ExitOutcomes == {"exit0", "exitN"}
SpawnOutcomes == ExitOutcomes \cup {"spawnerr"}

\* An interactive answer: yes, no, or the terminal failing.
Answers == {"yes", "no", "ioerr"}

\* The project names tried, the two placeholder names among them.
ProjectNames == {"demo", "rust-template", "hello_world"}

\* The names an entry of apps/ in the target directory may have.
AppNames == ProjectNames

\* An entry of apps/: absent, an empty directory, a directory with files, or
\* a file.
EntryKinds == {"absent", "empty", "full", "file"}

\* The files at the root of a template or of the target directory.
RootFiles == {"klave.json", "package.json", "Cargo.toml", "README.md"}

\* A root file of the target directory is absent, "old" (there before the
\* command ran), "raw" (copied from the bundle, nothing replaced in it),
\* "subst" (update_file has replaced its tokens) or "patched" (the name of
\* the placeholder application replaced in it, as literal text).
TargetBefore == {"absent", "old"}

\* The emails find_github_profile_url is called with: none, or an address.
Emails == {"", "dev@klave.test"}

\* The "login" of an item of the search result: missing or not a string, the
\* empty string, or a user name.
ItemLogins == {NoVal, "", "octocat"}

\* What comes back for the request: send fails; a body that is not JSON;
\* JSON with no "items" array; JSON with an "items" array.
Responses ==
    {[kind |-> k, items |-> <<>>] : k \in {"senderr", "notjson", "noitems"}}
    \cup {[kind |-> "items", items |-> s] : s \in SeqsUpTo(ItemLogins, MaxLen)}

NoResponse == [kind |-> "none", items |-> <<>>]

\* A string is the sequence of its parts; String::new() has none.
EmptyString == <<>>
GithubUrl(login) == <<"https://github.com/", login>>
DefaultProfileUrl == GithubUrl("yourusername")

\* How the profile URL prompt is answered.
UrlAnswers == {"default", "typed", "ioerr"}

VARIABLES
    pc,               \* where the command is
    configFile,       \* klave.json in the current directory (ConfigStates)
    applications,     \* the "applications" array of klave.json
    app,              \* --app
    skip_checks,      \* --skip-checks
    apps_to_process,  \* the selected applications
    has_package_json, \* package.json in the current directory
    tools,            \* (has_node, has_npm, has_cargo, has_cargo_component)
    package_manager,  \* the resolved package manager, "" when none
    deps_installed,   \* what are_dependencies_installed found, if it was asked
    build_results,    \* Vec<BuildResult>
    idx,              \* the position of the loop over apps_to_process
    child,            \* the build subprocess being waited for, or NoChild
    procs,            \* every subprocess started so far, with how it ended
    probes,           \* the commands looked up on PATH
    prompts,          \* the questions asked, with the answers
    err,              \* the error execute returned
    stderrMsg,        \* whether main printed "Error: ..." to standard error
    exitCode,         \* the process exit code, -1 while running
    tpc,              \* where create_template is
    template_type,    \* "rust" or "assemblyscript"
    project_name,     \* the project name
    bundle,           \* what the embedded template bundle holds
    tfiles,           \* the files at the root of the target directory
    tapps,            \* the entries of apps/ in the target directory
    terr,             \* the error create_template returned
    upc,              \* where update_file is
    fileExists,       \* whether the file update_file is given exists
    fileText,         \* the text of that file
    replacements,     \* the (token, replacement) pairs, in order
    steps,            \* content after reading and after each replace
    uerr,             \* the error update_file returned
    gpc,              \* where the profile lookup of create is
    author_email,     \* the email find_github_profile_url is called with
    requests,         \* the requests sent to the GitHub API
    response,         \* what came back for the request
    default_author_url, \* what find_github_profile_url returned
    url_default,      \* the default of the profile URL prompt
    author_url,       \* the answer to the profile URL prompt
    gerr,             \* the error create returned at that prompt
    cpc,              \* where the create command is
    cwd_klave,        \* whether klave.json exists in the current directory
    opt_name,         \* the name argument
    opt_template,     \* --template
    no_git,           \* --no-git
    no_install,       \* --no-install
    opt_dir,          \* --dir
    project_template, \* the template chosen
    create_name,      \* project_name of create
    init_git,         \* whether git init was asked for
    install_deps,     \* whether the install was asked for
    cprompts,         \* the prompts create has shown, in order
    csubs,            \* the subprocesses create has run, in order
    target_made,      \* whether create_dir_all has made the target directory
    cerr,             \* the error create returned
    cstderr,          \* what was written to standard error, in order
    cexit             \* the exit code of the create command, -1 while running

buildVars == <<pc, configFile, applications, app, skip_checks, apps_to_process,
               has_package_json, tools, package_manager, deps_installed,
               build_results, idx,
               child, procs, probes, prompts, err, stderrMsg, exitCode>>

templateVars == <<tpc, template_type, project_name, bundle, tfiles, tapps, terr>>

textVars == <<upc, fileExists, fileText, replacements, steps, uerr>>

profileVars == <<gpc, author_email, requests, response, default_author_url,
                 url_default, author_url, gerr>>

coptVars == <<cwd_klave, opt_name, opt_template, no_git, no_install, opt_dir>>

createVars == <<cpc, coptVars, project_template, create_name, init_git,
                install_deps, cprompts, csubs, target_made, cerr, cstderr, cexit>>

vars == <<buildVars, templateVars, textVars, profileVars, createVars>>

inputVars == <<configFile, applications, app, skip_checks>>

NoErr == [kind |-> "none", apps |-> <<>>]
Error(kind) == [kind |-> kind, apps |-> <<>>]

\* No subprocess is being waited for.
NoChild == [cmd |-> "", kind |-> "none", app |-> 0, appArg |-> NoVal]

AllTools == [node |-> TRUE, npm |-> TRUE, cargo |-> TRUE, cargo_component |-> TRUE]

\* ----------------------------------------------------- manifest (build.rs)

\* The error of reading klave.json, "none" when its applications array is read.
ConfigError_Lenient(cf) ==
    IF cf = "absent" THEN "ConfigNotFound"
    ELSE IF cf = "unreadable" THEN "IoError"
    ELSE IF cf = "badjson" THEN "ConfigInvalid"
    ELSE "none"

ConfigError(cf) ==
    IF cf = "absent" THEN "ConfigNotFound"
    ELSE IF cf = "unreadable" THEN "IoError"
    ELSE IF cf \in {"badjson", "noarray"} THEN "ConfigInvalid"
    ELSE "none"

Matches_SlugOnly(a, app_name) == a.slug = app_name

\* a.get("slug") == Some(app_name) || a.get("name") == Some(app_name)
Matches(a, app_name) == a.slug = app_name \/ a.name = app_name

FilterApps(apps, app_name) == SelectSeq(apps, LAMBDA a : Matches(a, app_name))

SlugOrName_SlugOnly(a) == a.slug

\* slug, else name, of an entry that has one of them.
SlugOrName(a) == IF a.slug # NoVal THEN a.slug ELSE a.name

\* The filter_map of the ApplicationNotFound message.
RECURSIVE AvailableApps(_)
AvailableApps(apps) ==
    IF apps = <<>> THEN <<>>
    ELSE LET rest == AvailableApps(Tail(apps))
         IN IF SlugOrName(Head(apps)) # NoVal
            THEN <<SlugOrName(Head(apps))>> \o rest
            ELSE rest

\* The app_slug of the build loop.
AppSlug(a) == IF SlugOrName(a) # NoVal THEN SlugOrName(a) ELSE "unknown"

DirExists(d) == d # "missing"
HasCargoToml(d) == d \in {"cargo", "both"}
HasTsconfig(d) == d \in {"ts", "both"}

AppType_DefaultRust(d) ==
    IF HasTsconfig(d) /\ ~HasCargoToml(d) THEN "assemblyscript" ELSE "rust"

\* The app type of the build loop.
AppType(d) ==
    IF HasCargoToml(d) THEN "rust"
    ELSE IF HasTsconfig(d) THEN "assemblyscript"
    ELSE "unknown"

Range(s) == {s[i] : i \in DOMAIN s}

NeedsRust(sel) == \E a \in Range(sel) : HasCargoToml(a.dir)
NeedsAssemblyscript(sel) == \E a \in Range(sel) : HasTsconfig(a.dir)
NeedsDependencies(pkg, sel) == pkg /\ \E a \in Range(sel) : HasTsconfig(a.dir)

\* Only the native toolchain is looked at.
MissingTools_RustOnly(sel, t) ==
    (IF NeedsRust(sel) /\ ~t.cargo THEN <<"rust">> ELSE <<>>)
    \o (IF NeedsRust(sel) /\ ~t.cargo_component THEN <<"cargo-component">> ELSE <<>>)

\* The missing_tools list of the tool check.
MissingTools(sel, t) ==
    (IF NeedsRust(sel) /\ ~t.cargo THEN <<"rust">> ELSE <<>>)
    \o (IF NeedsRust(sel) /\ ~t.cargo_component THEN <<"cargo-component">> ELSE <<>>)
    \o (IF NeedsAssemblyscript(sel) /\ ~t.node THEN <<"node">> ELSE <<>>)
    \o (IF NeedsAssemblyscript(sel) /\ ~t.npm THEN <<"npm">> ELSE <<>>)

ResolvePackageManager(yarnLock, pnpmLock) ==
    IF yarnLock THEN "yarn" ELSE IF pnpmLock THEN "pnpm" ELSE "npm"

\* run_command: Err only when the process could not be spawned; the Output,
\* with its exit status, is returned as Ok.
RunCommand(outcome) == IF outcome = "spawnerr" THEN "Err" ELSE "Ok"

\* The build command line of one application.
BuildCommand(type, pm, slug) ==
    IF type = "rust" THEN [cmd |-> "cargo", appArg |-> NoVal]
    ELSE IF pm \in {"npm", "yarn", "pnpm"} THEN [cmd |-> pm, appArg |-> slug]
    ELSE [cmd |-> "npm", appArg |-> NoVal]

\* The build loop does not look at the probed tools.
ToolsPresent_Always(type, t) == TRUE

\* Whether the build loop finds the tools of an application type.
ToolsPresent(type, t) ==
    IF type = "rust" THEN t.cargo /\ t.cargo_component ELSE t.node /\ t.npm

BuildResult(slug, success, type) ==
    [app |-> slug, success |-> success, app_type |-> type]

Successful(results) == Len(SelectSeq(results, LAMBDA r : r.success))

\* ------------------------------------------------------------------ Init

BuildInit(records) ==
    /\ pc = "start"
    /\ configFile \in ConfigStates
    /\ applications \in SeqsUpTo(records, MaxApps)
    /\ configFile # "ok" => applications = <<>>
    /\ app \in {NoVal, "a", "c"}
    /\ skip_checks \in BOOLEAN
    /\ apps_to_process = <<>>
    /\ has_package_json = FALSE
    /\ tools = AllTools
    /\ package_manager = ""
    /\ deps_installed = "unchecked"
    /\ build_results = <<>>
    /\ idx = 1
    /\ child = NoChild
    /\ procs = <<>>
    /\ probes = <<>>
    /\ prompts = <<>>
    /\ err = NoErr
    /\ stderrMsg = FALSE
    /\ exitCode = -1

\* The build command does not run.
BuildIdle ==
    /\ pc = "idle"
    /\ configFile = "absent"
    /\ applications = <<>>
    /\ app = NoVal
    /\ skip_checks = FALSE
    /\ apps_to_process = <<>>
    /\ has_package_json = FALSE
    /\ tools = AllTools
    /\ package_manager = ""
    /\ deps_installed = "unchecked"
    /\ build_results = <<>>
    /\ idx = 1
    /\ child = NoChild
    /\ procs = <<>>
    /\ probes = <<>>
    /\ prompts = <<>>
    /\ err = NoErr
    /\ stderrMsg = FALSE
    /\ exitCode = -1

\* create_template does not run.
TemplateIdle ==
    /\ tpc = "idle"
    /\ template_type = "rust"
    /\ project_name = "demo"
    /\ bundle = [files |-> {}, apps |-> {}]
    /\ tfiles = [f \in RootFiles |-> "absent"]
    /\ tapps = [n \in AppNames |-> "absent"]
    /\ terr = "none"

\* update_file does not run.
TextIdle ==
    /\ upc = "idle"
    /\ fileExists = FALSE
    /\ fileText = <<>>
    /\ replacements = <<>>
    /\ steps = <<>>
    /\ uerr = "none"

ProfileIdle ==
    /\ gpc = "idle"
    /\ author_email = ""
    /\ requests = 0
    /\ response = NoResponse
    /\ default_author_url = EmptyString
    /\ url_default = EmptyString
    /\ author_url = EmptyString
    /\ gerr = "none"

CreateIdle ==
    /\ cpc = "idle"
    /\ cwd_klave = FALSE
    /\ opt_name = NoVal
    /\ opt_template = NoVal
    /\ no_git = FALSE
    /\ no_install = FALSE
    /\ opt_dir = NoVal
    /\ project_template = NoVal
    /\ create_name = NoVal
    /\ init_git = FALSE
    /\ install_deps = FALSE
    /\ cprompts = <<>>
    /\ csubs = <<>>
    /\ target_made = FALSE
    /\ cerr = "none"
    /\ cstderr = <<>>
    /\ cexit = -1

Init ==
    /\ BuildInit(AppRecords(LoopIdentPairs, DirKinds))
    /\ TemplateIdle /\ TextIdle /\ ProfileIdle /\ CreateIdle

\* --------------------------------------------------------------- actions

\* execute returns Err(e).
Return(e) ==
    /\ pc' = "returned"
    /\ err' = e

\* build.rs 121-182: klave.json is read and the applications are selected.
LoadManifest ==
    /\ UNCHANGED <<templateVars, textVars, profileVars, createVars>>
    /\ pc = "start"
    /\ IF ConfigError(configFile) # "none" THEN
           Return(Error(ConfigError(configFile))) /\ UNCHANGED apps_to_process
       ELSE LET sel == IF app # NoVal THEN FilterApps(applications, app)
                       ELSE applications
            IN IF app # NoVal /\ sel = <<>> THEN
                   /\ Return([kind |-> "ApplicationNotFound",
                              apps |-> AvailableApps(applications)])
                   /\ UNCHANGED apps_to_process
               ELSE IF sel = <<>> THEN
                   Return(Error("NoApplications")) /\ UNCHANGED apps_to_process
               ELSE
                   /\ apps_to_process' = sel
                   /\ pc' = "analyze"
                   /\ UNCHANGED err
    /\ UNCHANGED <<inputVars, has_package_json, tools, package_manager,
                   deps_installed, build_results, idx, child, procs, probes,
                   prompts, stderrMsg, exitCode>>

\* build.rs 206-285: package.json is looked for and, unless --skip-checks,
\* the tools are looked up on PATH; missing tools are confirmed or abort.
CheckTools ==
    /\ UNCHANGED <<templateVars, textVars, profileVars, createVars>>
    /\ pc = "analyze"
    /\ \E pkg \in BOOLEAN : has_package_json' = pkg
    /\ IF skip_checks THEN
           /\ tools' = AllTools
           /\ pc' = "deps"
           /\ UNCHANGED <<probes, prompts, err>>
       ELSE \E onPath \in [{"node", "npm", "cargo", "cargo-component"} -> BOOLEAN] :
           LET t == [node |-> onPath["node"], npm |-> onPath["npm"],
                     cargo |-> onPath["cargo"],
                     cargo_component |->
                         IF onPath["cargo"] THEN onPath["cargo-component"]
                         ELSE FALSE]
           IN /\ tools' = t
              /\ probes' = <<"node", "npm", "cargo">>
                     \o (IF t.cargo THEN <<"cargo-component">> ELSE <<>>)
              /\ IF MissingTools(apps_to_process, t) # <<>> THEN
                     \E answer \in Answers :
                         /\ prompts' = Append(prompts, <<"continue-missing-tools", answer>>)
                         /\ IF answer = "yes" THEN pc' = "deps" /\ UNCHANGED err
                            ELSE Return(Error("ToolchainMissing"))
                 ELSE /\ pc' = "deps"
                      /\ UNCHANGED <<prompts, err>>
    /\ UNCHANGED <<inputVars, apps_to_process, package_manager, deps_installed,
                   build_results, idx, child, procs, stderrMsg, exitCode>>

\* An install that failed is not noticed: the loop is entered all the same.
Install_IgnoreFailure(pm, outcome) ==
    /\ procs' = Append(procs, [cmd |-> IF pm \in {"yarn", "pnpm"} THEN pm ELSE "npm",
                               kind |-> "install", app |-> 0,
                               appArg |-> NoVal, outcome |-> outcome])
    /\ pc' = "loop"
    /\ UNCHANGED err

\* install_dependencies (build.rs 72-97) as called from execute: the install
\* subprocess runs to its end; a failure aborts the command.
Install(pm, outcome) ==
    /\ procs' = Append(procs, [cmd |-> IF pm \in {"yarn", "pnpm"} THEN pm ELSE "npm",
                               kind |-> "install", app |-> 0,
                               appArg |-> NoVal, outcome |-> outcome])
    /\ IF outcome = "spawnerr" THEN Return(Error("SubprocessFailed"))
       ELSE IF outcome = "exitN" THEN Return(Error("InstallFailed"))
       ELSE pc' = "loop" /\ UNCHANGED err

\* build.rs 287-345: the package manager is resolved and missing
\* dependencies are installed, forced or after a prompt.
CheckDependencies ==
    /\ UNCHANGED <<templateVars, textVars, profileVars, createVars>>
    /\ pc = "deps"
    /\ \E yarnLock \in BOOLEAN, pnpmLock \in BOOLEAN, installed \in BOOLEAN :
        LET pm == IF has_package_json
                  THEN ResolvePackageManager(yarnLock, pnpmLock) ELSE ""
        IN /\ package_manager' = pm
           /\ deps_installed' =
                  IF ~NeedsDependencies(has_package_json, apps_to_process)
                  THEN "unchecked"
                  ELSE IF installed THEN "present" ELSE "absent"
           /\ IF NeedsDependencies(has_package_json, apps_to_process) /\ ~installed THEN
                  IF skip_checks THEN
                      /\ \E o \in SpawnOutcomes : Install(pm, o)
                      /\ UNCHANGED prompts
                  ELSE \E a1 \in Answers :
                      IF a1 = "ioerr" THEN
                          /\ prompts' = Append(prompts, <<"install-now", a1>>)
                          /\ Return(Error("IoError"))
                          /\ UNCHANGED procs
                      ELSE IF a1 = "yes" THEN
                          /\ prompts' = Append(prompts, <<"install-now", a1>>)
                          /\ \E o \in SpawnOutcomes : Install(pm, o)
                      ELSE \E a2 \in Answers :
                          /\ prompts' = prompts \o <<<<"install-now", a1>>,
                                                     <<"continue-without-deps", a2>>>>
                          /\ UNCHANGED procs
                          /\ IF a2 = "ioerr" THEN Return(Error("IoError"))
                             ELSE IF a2 = "no" THEN Return(Error("DepsNotInstalled"))
                             ELSE pc' = "loop" /\ UNCHANGED err
              ELSE /\ pc' = "loop"
                   /\ UNCHANGED <<prompts, procs, err>>
    /\ UNCHANGED <<inputVars, apps_to_process, has_package_json, tools,
                   build_results, idx, child, probes, stderrMsg, exitCode>>

\* A failed application is left out of the results.
Push_DropFailed(r) ==
    /\ build_results' = IF r.success THEN Append(build_results, r) ELSE build_results
    /\ idx' = idx + 1
    /\ pc' = "loop"

\* A failed application ends the loop.
Push_BreakOnFailure(r) ==
    /\ build_results' = Append(build_results, r)
    /\ idx' = IF r.success THEN idx + 1 ELSE Len(apps_to_process) + 1
    /\ pc' = "loop"

\* A build that failed is tried a second time.
Push_RetryOnce(r) ==
    IF ~r.success /\ r.app_type # "unknown"
          /\ ~\E k \in DOMAIN procs : procs[k].kind = "build" /\ procs[k].app = idx
    THEN pc' = "build" /\ UNCHANGED <<build_results, idx>>
    ELSE /\ build_results' = Append(build_results, r)
         /\ idx' = idx + 1
         /\ pc' = "loop"

\* One result is pushed and the loop moves to the next application.
Push(r) ==
    /\ build_results' = Append(build_results, r)
    /\ idx' = idx + 1
    /\ pc' = "loop"

\* build.rs 360-420: the next application is detected; one of a known type
\* enters its build step.
DetectApp ==
    /\ UNCHANGED <<templateVars, textVars, profileVars, createVars>>
    /\ pc = "loop"
    /\ idx <= Len(apps_to_process)
    /\ LET a == apps_to_process[idx]
           slug == AppSlug(a)
           type == AppType(a.dir)
       IN IF ~DirExists(a.dir) THEN
              Push(BuildResult(slug, FALSE, "unknown"))
          ELSE IF type = "unknown" THEN
              Push(BuildResult(slug, FALSE, type))
          ELSE
              /\ pc' = "build"
              /\ UNCHANGED <<build_results, idx>>
    /\ UNCHANGED <<inputVars, apps_to_process, has_package_json, tools,
                   package_manager, deps_installed, child, procs, probes,
                   prompts, err, stderrMsg, exitCode>>

\* The child has been spawned and is running on its own: nothing waits for it.
Spawned_NoWait(c) ==
    /\ child' = c
    /\ Push(BuildResult(AppSlug(apps_to_process[idx]), TRUE,
                        AppType(apps_to_process[idx].dir)))

\* Command::output, first half: the child has been spawned and execute
\* blocks until it ends.
Spawned(c) ==
    /\ child' = c
    /\ pc' = "wait"
    /\ UNCHANGED <<build_results, idx>>

\* build.rs 422-476: the tools of the application's type are looked at and
\* its build subprocess is started.
StartBuild ==
    /\ UNCHANGED <<templateVars, textVars, profileVars, createVars>>
    /\ pc = "build"
    /\ LET a == apps_to_process[idx]
           slug == AppSlug(a)
           type == AppType(a.dir)
           line == BuildCommand(type, package_manager, slug)
       IN IF ~ToolsPresent(type, tools) THEN
              Push(BuildResult(slug, FALSE, type)) /\ UNCHANGED <<child, procs>>
          ELSE
              \/ \* the process cannot be spawned: run_command returns Err
                 /\ Push(BuildResult(slug, RunCommand("spawnerr") = "Ok", type))
                 /\ procs' = Append(procs, [cmd |-> line.cmd, kind |-> "build",
                                            app |-> idx, appArg |-> line.appArg,
                                            outcome |-> "spawnerr"])
                 /\ UNCHANGED child
              \/ \* the child runs; execute waits for it
                 /\ Spawned([cmd |-> line.cmd, kind |-> "build", app |-> idx,
                             appArg |-> line.appArg])
                 /\ UNCHANGED procs
    /\ UNCHANGED <<inputVars, apps_to_process, has_package_json, tools,
                   package_manager, deps_installed, probes, prompts, err,
                   stderrMsg, exitCode>>

\* build.rs 114, 478-552: the build subprocess ends and its result is pushed.
FinishBuild ==
    /\ UNCHANGED <<templateVars, textVars, profileVars, createVars>>
    /\ pc = "wait"
    /\ \E status \in ExitOutcomes :
        LET a == apps_to_process[idx]
        IN /\ procs' = Append(procs, [cmd |-> child.cmd, kind |-> "build",
                                      app |-> idx, appArg |-> child.appArg,
                                      outcome |-> status])
           /\ Push(BuildResult(AppSlug(a), RunCommand(status) = "Ok", AppType(a.dir)))
    /\ child' = NoChild
    /\ UNCHANGED <<inputVars, apps_to_process, has_package_json, tools,
                   package_manager, deps_installed, probes, prompts, err,
                   stderrMsg, exitCode>>

\* build.rs 555-615: the summary; process::exit(1) when a result failed.
Summary ==
    /\ UNCHANGED <<templateVars, textVars, profileVars, createVars>>
    /\ pc = "loop"
    /\ idx > Len(apps_to_process)
    /\ IF Successful(build_results) < Len(build_results)
       THEN pc' = "exited" /\ exitCode' = 1
       ELSE pc' = "returned" /\ UNCHANGED exitCode
    /\ UNCHANGED <<inputVars, apps_to_process, has_package_json, tools,
                   package_manager, deps_installed, build_results, idx, child,
                   procs, probes, prompts, err, stderrMsg>>

\* main.rs 82-87: an error is printed and the process exits with 1.
MainExit ==
    /\ UNCHANGED <<templateVars, textVars, profileVars, createVars>>
    /\ pc = "returned"
    /\ pc' = "exited"
    /\ stderrMsg' = (err # NoErr)
    /\ exitCode' = IF err # NoErr THEN 1 ELSE 0
    /\ UNCHANGED <<inputVars, apps_to_process, has_package_json, tools,
                   package_manager, deps_installed, build_results, idx, child,
                   procs, probes, prompts, err>>

Next ==
    \/ LoadManifest
    \/ CheckTools
    \/ CheckDependencies
    \/ DetectApp
    \/ StartBuild
    \/ FinishBuild
    \/ Summary
    \/ MainExit

Spec == Init /\ [][Next]_vars

\* The same command over manifests with every kind of slug and name.
InitManifest ==
    /\ BuildInit(AppRecords(IdentPairs, {"plain", "cargo"}))
    /\ TemplateIdle /\ TextIdle /\ ProfileIdle /\ CreateIdle

SpecManifest == InitManifest /\ [][Next]_vars

\* ------------------------------------------- create_template (template.rs)

\* The placeholder application directory of a template.
Placeholder(type) == IF type = "rust" THEN "rust-template" ELSE "hello_world"

\* fs::rename of apps/old to apps/new, old existing: the entries afterwards
\* and whether the call succeeded.
Rename_LeavesOld(apps, old, new) ==
    IF apps[new] \in {"absent", "empty"}
    THEN [ok |-> TRUE, apps |-> [apps EXCEPT ![new] = apps[old]]]
    ELSE [ok |-> FALSE, apps |-> apps]

Rename(apps, old, new) ==
    IF old = new THEN [ok |-> TRUE, apps |-> apps]
    ELSE IF apps[new] = "absent"
            \/ (apps[new] = "empty" /\ apps[old] \in {"empty", "full"})
            \/ (apps[new] = "file" /\ apps[old] = "file")
    THEN [ok |-> TRUE,
          apps |-> [apps EXCEPT ![new] = apps[old], ![old] = "absent"]]
    ELSE [ok |-> FALSE, apps |-> apps]

\* copy_dir_all of the bundle's apps/ into the target: an entry that is a
\* file in the target cannot become a directory.
CopyAppsOk(apps, names) == \A n \in names : apps[n] # "file"

CopyApps(apps, names) ==
    [n \in AppNames |-> IF n \in names THEN "full" ELSE apps[n]]

CopyFiles(files, names) ==
    [f \in RootFiles |-> IF f \in names THEN "raw" ELSE files[f]]

\* update_file on the files that are there.
UpdateFiles(files, names) ==
    [f \in RootFiles |->
        IF f \in names /\ files[f] # "absent" THEN "subst" ELSE files[f]]

\* template.rs 82-90: for the rust template the workspace member of
\* Cargo.toml, when the file is there, is replaced.
PatchCargo(files, type) ==
    IF type = "rust" /\ files["Cargo.toml"] # "absent"
    THEN [files EXCEPT !["Cargo.toml"] = "patched"]
    ELSE files

TemplateInit ==
    /\ tpc = "start"
    /\ template_type \in {"rust", "assemblyscript"}
    /\ project_name \in ProjectNames
    /\ bundle \in [files : SUBSET RootFiles,
                   apps : SUBSET {"rust-template", "hello_world"}]
    /\ tfiles \in {f \in [RootFiles -> TargetBefore] : f["README.md"] = "absent"}
    /\ tapps \in [AppNames -> EntryKinds]
    /\ terr = "none"

TFail(e) ==
    /\ tpc' = "failed"
    /\ terr' = e

\* template.rs 23-32: the bundle is extracted into a temporary directory.
Extract ==
    /\ tpc = "start"
    /\ \/ tpc' = "extracted" /\ UNCHANGED terr
       \/ TFail("IoError")
    /\ UNCHANGED <<template_type, project_name, bundle, tfiles, tapps>>
    /\ UNCHANGED <<buildVars, textVars, profileVars, createVars>>

\* template.rs 34-46: the extracted tree is copied into the target
\* directory; a failing copy leaves a part of it there.
CopyTree ==
    /\ tpc = "extracted"
    /\ \/ /\ CopyAppsOk(tapps, bundle.apps)
          /\ tfiles' = CopyFiles(tfiles, bundle.files)
          /\ tapps' = CopyApps(tapps, bundle.apps)
          /\ tpc' = "copied"
          /\ UNCHANGED terr
       \/ \E fs \in SUBSET bundle.files, as \in SUBSET bundle.apps :
              /\ fs # bundle.files \/ as # bundle.apps
              /\ CopyAppsOk(tapps, as)
              /\ tfiles' = CopyFiles(tfiles, fs)
              /\ tapps' = CopyApps(tapps, as)
              /\ TFail("IoError")
    /\ UNCHANGED <<template_type, project_name, bundle>>
    /\ UNCHANGED <<buildVars, textVars, profileVars, createVars>>

\* template.rs 48-116: the tokens of klave.json, of package.json when it is
\* there and, for the rust template, the names in Cargo.toml are replaced.
UpdateTree ==
    /\ tpc = "copied"
    /\ IF tfiles["klave.json"] = "absent" THEN
           TFail("FileNotFound") /\ UNCHANGED tfiles
       ELSE \/ /\ tfiles' = PatchCargo(UpdateFiles(tfiles,
                                 {"klave.json", "package.json"}), template_type)
               /\ tpc' = "updated"
               /\ UNCHANGED terr
            \/ /\ TFail("IoError")
               /\ \E done \in SUBSET {"klave.json", "package.json"} :
                      tfiles' = UpdateFiles(tfiles, done)
    /\ UNCHANGED <<template_type, project_name, bundle, tapps>>
    /\ UNCHANGED <<buildVars, textVars, profileVars, createVars>>

\* The placeholder is taken to be there without a look.
AppDirFound_Always(apps, old) == TRUE

\* template.rs 122, 132: old_app_dir.exists().
AppDirFound(apps, old) == apps[old] # "absent"

\* template.rs 118-141: the placeholder application directory is renamed to
\* the project name.
RenameAppDir ==
    /\ tpc = "updated"
    /\ LET old == Placeholder(template_type)
           r == Rename(tapps, old, project_name)
       IN IF ~AppDirFound(tapps, old) THEN
              TFail("AppDirMissing") /\ UNCHANGED tapps
          ELSE IF r.ok THEN
              \/ tapps' = r.apps /\ tpc' = "ok" /\ UNCHANGED terr
              \/ TFail("IoError") /\ UNCHANGED tapps
          ELSE TFail("IoError") /\ UNCHANGED tapps
    /\ UNCHANGED <<template_type, project_name, bundle, tfiles>>
    /\ UNCHANGED <<buildVars, textVars, profileVars, createVars>>

TemplateNext ==
    \/ Extract
    \/ CopyTree
    \/ UpdateTree
    \/ RenameAppDir

InitTemplate ==
    BuildIdle /\ TemplateInit /\ TextIdle /\ ProfileIdle /\ CreateIdle

SpecTemplate == InitTemplate /\ [][TemplateNext]_vars

\* ----------------------------------------------- update_file (template.rs)

\* The characters of a text: the opening of a token, the letters that end
\* the two tokens, and any other character.
Chars == {"[", "S", "V", "x"}

\* The first two tokens of a replacement list, "{{KLAVE_APP_SLUG}}" and the
\* token after it: different texts with a common opening, neither of which
\* overlaps itself or the other.
SlugToken == <<"[", "S">>
NextToken == <<"[", "V">>

\* The replacement values tried: the user's texts.
Values == {<<>>, <<"x">>, <<"V">>, <<"[", "V">>, <<"[", "S">>}

\* str::replace with one match at most.
RECURSIVE Replace_FirstOnly(_, _, _)
Replace_FirstOnly(s, pat, to) ==
    IF Len(s) < Len(pat) THEN s
    ELSE IF SubSeq(s, 1, Len(pat)) = pat
    THEN to \o SubSeq(s, Len(pat) + 1, Len(s))
    ELSE <<Head(s)>> \o Replace_FirstOnly(Tail(s), pat, to)

\* str::replace: every non-overlapping match of pat in s, from the left,
\* becomes to.
RECURSIVE Replace(_, _, _)
Replace(s, pat, to) ==
    IF Len(s) < Len(pat) THEN s
    ELSE IF SubSeq(s, 1, Len(pat)) = pat
    THEN to \o Replace(SubSeq(s, Len(pat) + 1, Len(s)), pat, to)
    ELSE <<Head(s)>> \o Replace(Tail(s), pat, to)

TextInit ==
    /\ upc = "start"
    /\ fileExists \in BOOLEAN
    /\ fileText \in SeqsUpTo(Chars, MaxLen)
    /\ ~fileExists => fileText = <<>>
    /\ replacements \in {<<<<SlugToken, v1>>, <<NextToken, v2>>>> :
                            v1 \in Values, v2 \in Values}
    /\ steps = <<>>
    /\ uerr = "none"

UFail(e) ==
    /\ upc' = "failed"
    /\ uerr' = e

\* template.rs 163-175: the file is read.
ReadFile ==
    /\ upc = "start"
    /\ IF ~fileExists THEN UFail("FileNotFound") /\ UNCHANGED steps
       ELSE \/ /\ steps' = <<fileText>>
               /\ upc' = "replacing"
               /\ UNCHANGED uerr
            \/ UFail("IoError") /\ UNCHANGED steps
    /\ UNCHANGED <<fileExists, fileText, replacements>>
    /\ UNCHANGED <<buildVars, templateVars, profileVars, createVars>>

\* template.rs 177-179: the next pair of the list is applied to content.
ReplaceStep ==
    /\ upc = "replacing"
    /\ Len(steps) <= Len(replacements)
    /\ LET pair == replacements[Len(steps)]
       IN steps' = Append(steps, Replace(steps[Len(steps)], pair[1], pair[2]))
    /\ UNCHANGED <<upc, fileExists, fileText, replacements, uerr>>
    /\ UNCHANGED <<buildVars, templateVars, profileVars, createVars>>

\* template.rs 181-190: content is written over the file.
WriteFile ==
    /\ upc = "replacing"
    /\ Len(steps) > Len(replacements)
    /\ \/ /\ fileText' = steps[Len(steps)]
          /\ upc' = "written"
          /\ UNCHANGED uerr
       \/ \* File::create fails, or it truncates the file and the write fails
          /\ UFail("IoError")
          /\ fileText' \in {fileText, <<>>}
    /\ UNCHANGED <<fileExists, replacements, steps>>
    /\ UNCHANGED <<buildVars, templateVars, profileVars, createVars>>

TextNext ==
    \/ ReadFile
    \/ ReplaceStep
    \/ WriteFile

InitText ==
    BuildIdle /\ TemplateIdle /\ TextInit /\ ProfileIdle /\ CreateIdle

SpecText == InitText /\ [][TextNext]_vars

\* ------------------------- find_github_profile_url (git.rs) under create

\* The value returned once a response is there: the profile of the first
\* item that has a login.
FindGithubProfileUrl_AnyItem(r) ==
    IF r.kind = "items" /\ r.items # <<>>
    THEN GithubUrl(Head(r.items))
    ELSE EmptyString

\* git.rs 42-56: the value returned once send has come back.
FindGithubProfileUrl(r) ==
    IF r.kind = "items" /\ r.items # <<>> /\ Head(r.items) # NoVal
    THEN GithubUrl(Head(r.items))
    ELSE EmptyString

ProfileInit ==
    /\ gpc = "start"
    /\ author_email \in Emails
    /\ requests = 0
    /\ response = NoResponse
    /\ default_author_url = EmptyString
    /\ url_default = EmptyString
    /\ author_url = EmptyString
    /\ gerr = "none"

\* git.rs 33-35: with an empty email the function returns at once.
ReturnEmpty ==
    /\ gpc = "start"
    /\ author_email = ""
    /\ default_author_url' = EmptyString
    /\ gpc' = "returned"
    /\ UNCHANGED <<author_email, requests, response, url_default, author_url, gerr>>
    /\ UNCHANGED <<buildVars, templateVars, textVars, createVars>>

\* git.rs 37-41: the search request is sent and something comes back.
SendRequest ==
    /\ gpc = "start"
    /\ author_email # ""
    /\ requests' = requests + 1
    /\ response' \in Responses
    /\ gpc' = "responded"
    /\ UNCHANGED <<author_email, default_author_url, url_default, author_url, gerr>>
    /\ UNCHANGED <<buildVars, templateVars, textVars, createVars>>

\* git.rs 42-56: the response is read and the function returns.
ReadResponse ==
    /\ gpc = "responded"
    /\ default_author_url' = FindGithubProfileUrl(response)
    /\ gpc' = "returned"
    /\ UNCHANGED <<author_email, requests, response, url_default, author_url, gerr>>
    /\ UNCHANGED <<buildVars, templateVars, textVars, createVars>>

\* create.rs 107-112: the returned value, or the fixed profile URL when it
\* is empty, is the default of the prompt for the profile URL.
AskAuthorUrl ==
    /\ gpc = "returned"
    /\ url_default' = IF default_author_url = EmptyString
                      THEN DefaultProfileUrl ELSE default_author_url
    /\ \E answer \in UrlAnswers :
           IF answer = "ioerr" THEN
               gpc' = "failed" /\ gerr' = "IoError" /\ UNCHANGED author_url
           ELSE
               /\ gpc' = "asked"
               /\ author_url' = IF answer = "default" THEN url_default'
                                ELSE GithubUrl("someone")
               /\ UNCHANGED gerr
    /\ UNCHANGED <<author_email, requests, response, default_author_url>>
    /\ UNCHANGED <<buildVars, templateVars, textVars, createVars>>

ProfileNext ==
    \/ ReturnEmpty
    \/ SendRequest
    \/ ReadResponse
    \/ AskAuthorUrl

InitProfile ==
    BuildIdle /\ TemplateIdle /\ TextIdle /\ ProfileInit /\ CreateIdle

SpecProfile == InitProfile /\ [][ProfileNext]_vars

\* ------------------------------------------------ create (create.rs)

\* The names the project is given on the command line or at the prompt.
CreateNames == {"demo", "hello_world"}

Templates == {"assemblyscript", "rust"}

\* The files and the application directory of the template of a type.
TemplateBundle(type) ==
    [files |-> IF type = "rust" THEN {"klave.json", "Cargo.toml", "README.md"}
               ELSE {"klave.json", "package.json", "README.md"},
     apps |-> {Placeholder(type)}]

\* The check is left out.
InKlaveProject_Never(found) == FALSE

\* create.rs 20: klave_config_path.exists().
InKlaveProject(found) == found

CreateInit ==
    /\ cpc = "start"
    /\ cwd_klave \in BOOLEAN
    /\ opt_name \in {NoVal, "demo"}
    /\ opt_template \in {NoVal} \cup Templates
    /\ no_git \in BOOLEAN
    /\ no_install \in BOOLEAN
    /\ opt_dir \in {NoVal, "./out"}
    /\ project_template = NoVal
    /\ create_name = NoVal
    /\ init_git = FALSE
    /\ install_deps = FALSE
    /\ cprompts = <<>>
    /\ csubs = <<>>
    /\ target_made = FALSE
    /\ cerr = "none"
    /\ cstderr = <<>>
    /\ cexit = -1

\* execute returns Err(e).
CFail(e) ==
    /\ cpc' = "returned"
    /\ cerr' = e

\* create.rs 16-34: inside a Klave project the command returns an error;
\* otherwise the runtime for the lookup is made.
CheckProject ==
    /\ cpc = "start"
    /\ IF InKlaveProject(cwd_klave) THEN
           /\ cstderr' = Append(cstderr, "found-klave-json")
           /\ CFail("AlreadyInProject")
       ELSE
           /\ \/ cpc' = "ask_project" /\ UNCHANGED cerr
              \/ CFail("IoError")
           /\ UNCHANGED cstderr
    /\ UNCHANGED <<coptVars, project_template, create_name, init_git,
                   install_deps, cprompts, csubs, target_made, cexit>>
    /\ UNCHANGED <<buildVars, templateVars, textVars, profileVars>>

\* The prompts for what the command line left open.
ProjectPrompts ==
    (IF opt_template = NoVal THEN <<"language">> ELSE <<>>)
    \o (IF opt_dir = NoVal /\ opt_name = NoVal THEN <<"directory">> ELSE <<>>)
    \o (IF opt_name = NoVal THEN <<"name">> ELSE <<>>)

\* create.rs 36-84: the template, the directory and the name are taken from
\* the command line or asked for; a prompt that fails ends the command.
AskProject ==
    /\ cpc = "ask_project"
    /\ \/ /\ cprompts' = cprompts \o ProjectPrompts
          /\ project_template' \in
                 (IF opt_template = NoVal THEN Templates ELSE {opt_template})
          /\ create_name' \in (IF opt_name = NoVal THEN CreateNames ELSE {opt_name})
          /\ cpc' = "ask_author"
          /\ UNCHANGED cerr
       \/ /\ \E k \in 1..Len(ProjectPrompts) :
                 cprompts' = cprompts \o SubSeq(ProjectPrompts, 1, k)
          /\ CFail("IoError")
          /\ UNCHANGED <<project_template, create_name>>
    /\ UNCHANGED <<coptVars, init_git, install_deps, csubs, target_made,
                   cstderr, cexit>>
    /\ UNCHANGED <<buildVars, templateVars, textVars, profileVars>>

AuthorPrompts == <<"description", "author-name", "author-email">>

\* create.rs 86-107: git config is read twice for the defaults, whatever
\* comes of it; the description, the author and the email are asked for and
\* find_github_profile_url is called with the email, which the prompt never
\* returns empty.
AskAuthor ==
    /\ cpc = "ask_author"
    /\ csubs' = csubs \o <<[cmd |-> "git config user.name", outcome |-> "any"],
                           [cmd |-> "git config user.email", outcome |-> "any"]>>
    /\ \/ /\ cprompts' = cprompts \o AuthorPrompts
          /\ author_email' \in Emails \ {""}
          /\ gpc' = "start"
          /\ cpc' = "lookup"
          /\ UNCHANGED cerr
       \/ /\ \E k \in 1..Len(AuthorPrompts) :
                 cprompts' = cprompts \o SubSeq(AuthorPrompts, 1, k)
          /\ CFail("IoError")
          /\ UNCHANGED <<author_email, gpc>>
    /\ UNCHANGED <<requests, response, default_author_url, url_default,
                   author_url, gerr>>
    /\ UNCHANGED <<coptVars, project_template, create_name, init_git,
                   install_deps, target_made, cstderr, cexit>>
    /\ UNCHANGED <<buildVars, templateVars, textVars>>

\* create.rs 109-120: the profile URL prompt has ended; its failure ends the
\* command, otherwise the repository URL is asked for. What the lookup
\* returned is gone once the prompt has taken it.
AskRepoUrl ==
    /\ cpc = "lookup"
    /\ gpc \in {"asked", "failed"}
    /\ IF gpc = "failed" THEN
           CFail("IoError") /\ UNCHANGED cprompts
       ELSE
           /\ cprompts' = Append(cprompts, "repository")
           /\ \/ cpc' = "ask_options" /\ UNCHANGED cerr
              \/ CFail("IoError")
    /\ gpc' = "done"
    /\ response' = NoResponse
    /\ default_author_url' = EmptyString
    /\ url_default' = EmptyString
    /\ UNCHANGED <<author_email, requests, author_url, gerr>>
    /\ UNCHANGED <<coptVars, project_template, create_name, init_git,
                   install_deps, csubs, target_made, cstderr, cexit>>
    /\ UNCHANGED <<buildVars, templateVars, textVars>>

OptionPrompts ==
    (IF no_git THEN <<>> ELSE <<"init-git">>)
    \o (IF no_install \/ project_template # "assemblyscript"
        THEN <<>> ELSE <<"install-deps">>)

\* create.rs 122-140: git init and the install are asked for unless the
\* command line or the template rules them out.
AskOptions ==
    /\ cpc = "ask_options"
    /\ \/ /\ cprompts' = cprompts \o OptionPrompts
          /\ init_git' \in (IF no_git THEN {FALSE} ELSE BOOLEAN)
          /\ install_deps' \in
                 (IF no_install \/ project_template # "assemblyscript"
                  THEN {FALSE} ELSE BOOLEAN)
          /\ cpc' = "mkdir"
          /\ UNCHANGED cerr
       \/ /\ \E k \in 1..Len(OptionPrompts) :
                 cprompts' = cprompts \o SubSeq(OptionPrompts, 1, k)
          /\ CFail("IoError")
          /\ UNCHANGED <<init_git, install_deps>>
    /\ UNCHANGED <<coptVars, project_template, create_name, csubs, target_made,
                   cstderr, cexit>>
    /\ UNCHANGED <<buildVars, templateVars, textVars, profileVars>>

\* create.rs 142-144: create_dir_all of the target directory.
CreateTargetDir ==
    /\ cpc = "mkdir"
    /\ \/ target_made' = TRUE /\ cpc' = "call_template" /\ UNCHANGED cerr
       \/ CFail("IoError") /\ UNCHANGED target_made
    /\ UNCHANGED <<coptVars, project_template, create_name, init_git,
                   install_deps, cprompts, csubs, cstderr, cexit>>
    /\ UNCHANGED <<buildVars, templateVars, textVars, profileVars>>

\* create.rs 147-156: create_template is called on the target directory,
\* which is new or has an entry of the project's name under apps/ already.
CallCreateTemplate ==
    /\ cpc = "call_template"
    /\ tpc' = "start"
    /\ template_type' = project_template
    /\ project_name' = create_name
    /\ bundle' = TemplateBundle(project_template)
    /\ tfiles' = [f \in RootFiles |-> "absent"]
    /\ \E before \in {"absent", "full"} :
           tapps' = [n \in AppNames |-> IF n = create_name THEN before ELSE "absent"]
    /\ terr' = "none"
    /\ cpc' = "template"
    /\ UNCHANGED <<coptVars, project_template, create_name, init_git,
                   install_deps, cprompts, csubs, target_made, cerr, cstderr,
                   cexit>>
    /\ UNCHANGED <<buildVars, textVars, profileVars>>

\* create.rs 156: the `?` on what create_template returned.
TemplateReturned ==
    /\ cpc = "template"
    /\ tpc \in {"ok", "failed"}
    /\ IF tpc = "failed" THEN CFail(terr)
       ELSE cpc' = "git" /\ UNCHANGED cerr
    /\ UNCHANGED <<coptVars, project_template, create_name, init_git,
                   install_deps, cprompts, csubs, target_made, cstderr, cexit>>
    /\ UNCHANGED <<buildVars, templateVars, textVars, profileVars>>

\* create.rs 158-170: git init when asked for; a non-zero exit is a warning,
\* a process that cannot be spawned an error.
GitInit ==
    /\ cpc = "git"
    /\ IF init_git THEN
           \E o \in SpawnOutcomes :
               /\ csubs' = Append(csubs, [cmd |-> "git init", outcome |-> o])
               /\ IF o = "spawnerr" THEN CFail("IoError")
                  ELSE cpc' = "install" /\ UNCHANGED cerr
               /\ cstderr' = IF o = "exitN" THEN Append(cstderr, "warning-git")
                             ELSE cstderr
       ELSE cpc' = "install" /\ UNCHANGED <<csubs, cerr, cstderr>>
    /\ UNCHANGED <<coptVars, project_template, create_name, init_git,
                   install_deps, cprompts, target_made, cexit>>
    /\ UNCHANGED <<buildVars, templateVars, textVars, profileVars>>

\* create.rs 172-231: npm install when asked for, with the same handling,
\* and the next steps are printed.
NpmInstall ==
    /\ cpc = "install"
    /\ IF install_deps THEN
           \E o \in SpawnOutcomes :
               /\ csubs' = Append(csubs, [cmd |-> "npm install", outcome |-> o])
               /\ IF o = "spawnerr" THEN CFail("IoError")
                  ELSE cpc' = "returned" /\ UNCHANGED cerr
               /\ cstderr' = IF o = "exitN" THEN Append(cstderr, "warning-install")
                             ELSE cstderr
       ELSE cpc' = "returned" /\ UNCHANGED <<csubs, cerr, cstderr>>
    /\ UNCHANGED <<coptVars, project_template, create_name, init_git,
                   install_deps, cprompts, target_made, cexit>>
    /\ UNCHANGED <<buildVars, templateVars, textVars, profileVars>>

\* main.rs 82-87 for create: an error is printed and the process exits
\* with 1.
CreateExit ==
    /\ cpc = "returned"
    /\ cpc' = "exited"
    /\ cstderr' = IF cerr # "none" THEN Append(cstderr, "error") ELSE cstderr
    /\ cexit' = IF cerr # "none" THEN 1 ELSE 0
    /\ UNCHANGED <<coptVars, project_template, create_name, init_git,
                   install_deps, cprompts, csubs, target_made, cerr>>
    /\ UNCHANGED <<buildVars, templateVars, textVars, profileVars>>

\* The lookup is entered with a non-empty email only, so its return for the
\* empty email is not among the steps of create.
CreateNext ==
    \/ CheckProject
    \/ AskProject
    \/ AskAuthor
    \/ SendRequest
    \/ ReadResponse
    \/ AskAuthorUrl
    \/ AskRepoUrl
    \/ AskOptions
    \/ CreateTargetDir
    \/ CallCreateTemplate
    \/ Extract
    \/ CopyTree
    \/ UpdateTree
    \/ RenameAppDir
    \/ TemplateReturned
    \/ GitInit
    \/ NpmInstall
    \/ CreateExit

InitCreate ==
    BuildIdle /\ TemplateIdle /\ TextIdle /\ ProfileIdle /\ CreateInit

SpecCreate == InitCreate /\ [][CreateNext]_vars

\* ---------------------------------------------------------------- claims

\* The summary of the build command has been reached.
SummaryReached ==
    /\ err = NoErr
    /\ \/ pc = "loop" /\ idx > Len(apps_to_process)
       \/ pc \in {"returned", "exited"}

\* No probe, prompt, install or build subprocess has happened.
NothingStarted ==
    probes = <<>> /\ prompts = <<>> /\ procs = <<>> /\ child = NoChild

\* The build subprocess of the i-th selected application was started.
BuildStarted(i) ==
    \/ \E k \in DOMAIN procs : procs[k].kind = "build" /\ procs[k].app = i
    \/ child # NoChild /\ child.app = i

\* The build subprocess of the i-th selected application exited with status 0.
BuildExitedZero(i) ==
    \E k \in DOMAIN procs :
        procs[k].kind = "build" /\ procs[k].app = i /\ procs[k].outcome = "exit0"

\* C1: once the summary is reached, the exit code is 0 if and only if the
\* build subprocess of every selected application exited with status 0, and
\* it is 1 otherwise.
C1_ExitZeroIffAllExitedZero ==
    (pc = "exited" /\ err = NoErr) =>
        /\ exitCode \in {0, 1}
        /\ exitCode = 0 <=> \A i \in DOMAIN apps_to_process : BuildExitedZero(i)

\* C2: without --app, once the tool and dependency phases are passed, the
\* results are one per manifest entry, in manifest order, and the summary
\* counts exactly as many results as the manifest has entries.
C2_OneResultPerEntry ==
    (app = NoVal /\ err = NoErr /\ pc \in {"loop", "build", "wait", "returned", "exited"}) =>
        /\ Len(build_results) = idx - 1
        /\ Len(build_results) <= Len(applications)
        /\ \A i \in DOMAIN build_results :
               build_results[i].app = AppSlug(applications[i])
        /\ SummaryReached =>
               /\ Len(applications) >= 1
               /\ Len(build_results) = Len(applications)

C2_Witness ==
    /\ app = NoVal /\ pc = "loop" /\ idx > Len(apps_to_process)
    /\ Len(applications) = 2 /\ Len(build_results) = 2
    /\ ~build_results[1].success /\ build_results[2].success

\* The number of manifest entries whose slug or name is v.
EntriesNamed(v) ==
    Cardinality({i \in DOMAIN applications :
                    applications[i].slug = v \/ applications[i].name = v})

SlugExists(v) == \E i \in DOMAIN applications : applications[i].slug = v

\* C3 as stated: --app set to a slug of the manifest gives exactly one
\* build result, whatever the other entries are.
C3_ExistingSlugOneResult ==
    (SummaryReached /\ app # NoVal /\ SlugExists(app)) => Len(build_results) = 1

\* C3: --app set to a slug of the manifest gives one build result per entry
\* whose slug or name is that value: exactly one when one entry has it.
C3_OneResultPerNamedEntry ==
    (SummaryReached /\ app # NoVal /\ SlugExists(app)) =>
        /\ Len(build_results) = EntriesNamed(app)
        /\ Len(build_results) >= 1
        /\ \A i \in DOMAIN build_results :
               build_results[i].app = AppSlug(apps_to_process[i])
               /\ (apps_to_process[i].slug = app \/ apps_to_process[i].name = app)

C3_Witness ==
    /\ SummaryReached /\ pc = "exited" /\ app = "a" /\ SlugExists(app)
    /\ Len(applications) = 2 /\ EntriesNamed(app) = 1
    /\ Len(build_results) = 1

\* The entries of the manifest that have a slug or a name.
Identified ==
    {i \in DOMAIN applications :
        applications[i].slug # NoVal \/ applications[i].name # NoVal}

\* C4: --app set to a value that is no entry's slug or name fails with
\* ApplicationNotFound; the message lists, in manifest order, the slug, else
\* the name, of every entry that has one; nothing is probed, asked or run.
C4_NotFoundListsApps ==
    /\ (pc # "start" /\ configFile = "ok" /\ app # NoVal /\ EntriesNamed(app) = 0)
           => err.kind = "ApplicationNotFound"
    /\ err.kind = "ApplicationNotFound" =>
           /\ app # NoVal /\ EntriesNamed(app) = 0
           /\ Len(err.apps) = Cardinality(Identified)
           /\ \A i \in Identified :
                  err.apps[Cardinality({k \in Identified : k <= i})] =
                      (IF applications[i].slug # NoVal THEN applications[i].slug
                       ELSE applications[i].name)
           /\ NothingStarted
           /\ build_results = <<>>
           /\ (pc = "exited" => exitCode = 1)

C4_Witness ==
    /\ pc = "exited" /\ err.kind = "ApplicationNotFound" /\ app = "c"
    /\ Len(applications) = 2
    /\ applications[1].slug = NoVal /\ applications[1].name = "b"
    /\ applications[2].slug = "b"
    /\ err.apps = <<"b", "b">>

\* C5: an absent klave.json fails with ConfigNotFound, one that is not JSON
\* or has no applications array with ConfigInvalid, and nothing is probed,
\* asked or run before the error is returned.
C5_ConfigErrors ==
    /\ (pc # "start" /\ configFile = "absent") => err.kind = "ConfigNotFound"
    /\ (pc # "start" /\ configFile \in {"badjson", "noarray"})
           => err.kind = "ConfigInvalid"
    /\ err.kind \in {"ConfigNotFound", "ConfigInvalid"} =>
           /\ NothingStarted
           /\ build_results = <<>>
           /\ pc \in {"returned", "exited"}

C5_Witness ==
    pc = "exited" /\ configFile = "noarray" /\ err.kind = "ConfigInvalid"
    /\ exitCode = 1 /\ stderrMsg

\* Application j of the selection went through the build step: its build
\* subprocess was started, or the step found its toolchain missing.
WentToBuild(j) ==
    \/ BuildStarted(j)
    \/ /\ apps_to_process[j].dir \in {"cargo", "both"}
       /\ ~(tools.cargo /\ tools.cargo_component)
    \/ /\ apps_to_process[j].dir = "ts"
       /\ ~(tools.node /\ tools.npm)

C7_UnknownTypeSkipped ==
    \A i \in DOMAIN apps_to_process :
        apps_to_process[i].dir \in {"plain", "missing"} =>
            /\ ~BuildStarted(i)
            /\ i < idx =>
                   /\ Len(build_results) = idx - 1
                   /\ build_results[i].app_type = "unknown"
                   /\ ~build_results[i].success
                   /\ err = NoErr
                   /\ pc \in {"loop", "build", "wait", "returned", "exited"}

C7_Witness ==
    /\ SummaryReached /\ Len(apps_to_process) = 2
    /\ apps_to_process[1].dir = "plain"
    /\ build_results[1] = BuildResult(AppSlug(apps_to_process[1]), FALSE, "unknown")
    /\ BuildStarted(2)

\* C8 as stated: after create_template succeeds, apps/<project name> is a
\* directory of the target and the placeholder directory is gone, also when
\* the project name is the placeholder name.
C8_PlaceholderGone ==
    LET ph == IF template_type = "rust" THEN "rust-template" ELSE "hello_world"
    IN (tpc = "ok" /\ ph \in bundle.apps) =>
           /\ tapps[project_name] \in {"empty", "full"}
           /\ tapps[ph] = "absent"

\* C8: after create_template succeeds with a bundle that holds the
\* placeholder directory, apps/<project name> is that directory, and the
\* placeholder name is gone unless it is the project name.
C8_RenamedUnlessSameName ==
    LET ph == IF template_type = "rust" THEN "rust-template" ELSE "hello_world"
    IN (tpc = "ok" /\ ph \in bundle.apps) =>
           /\ tapps[project_name] = "full"
           /\ project_name # ph => tapps[ph] = "absent"
           /\ project_name = ph => tapps[ph] = "full"

C8_Witness ==
    /\ tpc = "ok" /\ template_type = "rust" /\ project_name = "demo"
    /\ "rust-template" \in bundle.apps
    /\ tapps["demo"] = "full" /\ tapps["rust-template"] = "absent"

\* The text s with the occurrences of the tokens it holds replaced, each by
\* the value of its pair, and nothing else changed.
RECURSIVE OccurrencesReplaced(_, _)
OccurrencesReplaced(s, pairs) ==
    IF s = <<>> THEN <<>>
    ELSE LET hit == {k \in DOMAIN pairs :
                        /\ Len(pairs[k][1]) <= Len(s)
                        /\ SubSeq(s, 1, Len(pairs[k][1])) = pairs[k][1]}
         IN IF hit = {} THEN <<Head(s)>> \o OccurrencesReplaced(Tail(s), pairs)
            ELSE LET k == CHOOSE k \in hit : \A h \in hit : k <= h
                 IN pairs[k][2]
                    \o OccurrencesReplaced(
                           SubSeq(s, Len(pairs[k][1]) + 1, Len(s)), pairs)

\* The number of places of s where pat starts.
Occurrences(s, pat) ==
    Cardinality({i \in 1..(Len(s) - Len(pat) + 1) :
                    SubSeq(s, i, i + Len(pat) - 1) = pat})

\* No replace of the run made an occurrence of a token later in the list.
NoLaterTokenMade ==
    \A k \in 1..(Len(steps) - 1) :
        \A j \in DOMAIN replacements :
            j > k => Occurrences(steps[k + 1], replacements[j][1])
                         = Occurrences(steps[k], replacements[j][1])

\* C9 as stated: the written text is the original with exactly the original
\* token occurrences replaced, whatever the replacement values are.
C9_OnlyOriginalOccurrences ==
    upc = "written" => fileText = OccurrencesReplaced(steps[1], replacements)

\* C9: the written text is the original with exactly the original token
\* occurrences replaced whenever no replace of the run made an occurrence of
\* a token later in the list.
C9_UnlessLaterTokenMade ==
    (upc = "written" /\ NoLaterTokenMade)
        => fileText = OccurrencesReplaced(steps[1], replacements)

C9_Witness ==
    /\ upc = "written"
    /\ steps[1] = <<"[", "S", "[", "S">>
    /\ replacements[1][2] = <<"x">>
    /\ NoLaterTokenMade
    /\ fileText = <<"x", "x">>

\* C10: every error the command returns reaches main, which prints it to
\* standard error and exits with 1; the exit code is 0 only when the command
\* returned no error and every selected application was built with exit
\* status 0.
C10_ExitCodes ==
    pc = "exited" =>
        /\ err # NoErr => (stderrMsg /\ exitCode = 1)
        /\ exitCode = 0 =>
               /\ err = NoErr
               /\ \A i \in DOMAIN apps_to_process : BuildExitedZero(i)

\* The part of C10 that holds: errors end in exit code 1 with a message, and
\* exit code 0 needs every recorded result to be a success.
ErrorsReachMain ==
    pc = "exited" =>
        /\ err # NoErr => (stderrMsg /\ exitCode = 1)
        /\ exitCode = 0 =>
               /\ err = NoErr
               /\ \A i \in DOMAIN build_results : build_results[i].success
               /\ Len(build_results) = Len(apps_to_process)

\* The applications whose build subprocess is running.
Running == IF child = NoChild THEN {} ELSE {child.app}

\* C11: applications are built one at a time in the order of the selection:
\* a build subprocess runs only while execute waits for it and belongs to the
\* application at hand; whatever ran for an earlier application has ended;
\* nothing has been detected, started or recorded for a later application;
\* and the ended subprocesses are in the order of the selection.
C11_OneBuildAtATime ==
    /\ child # NoChild =>
           /\ pc = "wait"
           /\ child.kind = "build"
           /\ child.app = idx
           /\ \A k \in DOMAIN procs :
                  procs[k].kind = "build" => procs[k].app < child.app
    /\ \A k \in DOMAIN procs :
           procs[k].kind = "build" =>
               /\ procs[k].app \in DOMAIN apps_to_process
               /\ procs[k].app <= idx
               /\ procs[k].app = idx => pc \notin {"loop", "build", "wait"}
               /\ \A l \in DOMAIN procs :
                      (k < l /\ procs[l].kind = "build") => procs[k].app < procs[l].app
    /\ \A j \in DOMAIN apps_to_process :
           (pc \in {"loop", "build", "wait"} /\ j > idx) =>
               ~BuildStarted(j) /\ j \notin DOMAIN build_results
    /\ pc \in {"loop", "build", "wait"} => Len(build_results) = idx - 1

C11_Witness ==
    /\ pc = "wait" /\ Running = {2}
    /\ \E k \in DOMAIN procs :
           procs[k].kind = "build" /\ procs[k].app = 1 /\ procs[k].outcome \in ExitOutcomes
    /\ Len(build_results) = 1

\* The prompts shown with the given question, as positions in the prompt log.
Asked(question) == {k \in DOMAIN prompts : prompts[k][1] = question}

\* The install subprocesses that were run, as positions in the process log.
Installs == {k \in DOMAIN procs : procs[k].kind = "install"}

\* The command has ended with an error and no build subprocess was started.
AbortedBeforeBuilds ==
    /\ err # NoErr
    /\ pc \in {"returned", "exited"}
    /\ build_results = <<>>
    /\ \A i \in DOMAIN apps_to_process : ~BuildStarted(i)

\* C14: when dependencies are required and node_modules is absent, then under
\* --skip-checks the install runs and nothing is asked; otherwise the user is
\* asked whether to install, and after a refusal whether to continue without,
\* and a second refusal aborts the command. An install that fails aborts the
\* command before any build subprocess is started. In every other case
\* nothing is installed and nothing is asked.
C14_InstallPolicy ==
    /\ deps_installed = "absent" =>
           /\ NeedsDependencies(has_package_json, apps_to_process)
           /\ skip_checks =>
                  /\ Cardinality(Installs) = 1
                  /\ prompts = <<>>
           /\ ~skip_checks =>
                  /\ Cardinality(Asked("install-now")) = 1
                  /\ \A k \in Asked("install-now") :
                         /\ prompts[k][2] = "yes" =>
                                /\ Cardinality(Installs) = 1
                                /\ Asked("continue-without-deps") = {}
                         /\ prompts[k][2] = "no" =>
                                /\ Installs = {}
                                /\ Asked("continue-without-deps") = {k + 1}
                                /\ prompts[k + 1][2] = "no" =>
                                       /\ AbortedBeforeBuilds
                                       /\ err.kind = "DepsNotInstalled"
                                /\ prompts[k + 1][2] = "yes" => err = NoErr
                         /\ prompts[k][2] = "ioerr" =>
                                Installs = {} /\ AbortedBeforeBuilds
    /\ deps_installed # "absent" =>
           /\ Installs = {}
           /\ Asked("install-now") = {}
           /\ Asked("continue-without-deps") = {}
    /\ \A k \in Installs :
           /\ k = 1
           /\ procs[k].cmd = (IF package_manager \in {"yarn", "pnpm"}
                              THEN package_manager ELSE "npm")
           /\ procs[k].outcome # "exit0" => AbortedBeforeBuilds
           /\ procs[k].outcome = "exit0" => err = NoErr

C14_Witness ==
    /\ ~skip_checks
    /\ deps_installed = "absent"
    /\ prompts = <<<<"install-now", "yes">>>>
    /\ Len(procs) = 1 /\ procs[1].kind = "install" /\ procs[1].outcome = "exitN"
    /\ err = Error("InstallFailed")
    /\ pc = "exited" /\ exitCode = 1

\* Some selected application is of a type whose tools were not found.
RequiredToolMissing ==
    \E a \in Range(apps_to_process) :
        AppType(a.dir) # "unknown" /\ ~ToolsPresent(AppType(a.dir), tools)

\* C15: without --skip-checks, once the tools were probed, a missing tool of
\* a selected application's type means that 'Continue anyway?' was asked, and
\* either it was confirmed or the command ended with an error with no install
\* or build subprocess run. With --skip-checks nothing is probed, the
\* question is never asked and all tools count as present.
C15_MissingToolsGate ==
    /\ (~skip_checks /\ probes # <<>>) =>
           /\ probes = <<"node", "npm", "cargo">>
                  \o (IF tools.cargo THEN <<"cargo-component">> ELSE <<>>)
           /\ RequiredToolMissing =>
                  /\ Asked("continue-missing-tools") = {1}
                  /\ prompts[1][2] # "yes" =>
                         /\ AbortedBeforeBuilds
                         /\ err.kind = "ToolchainMissing"
                         /\ procs = <<>>
                  /\ (procs # <<>> \/ child # NoChild \/ pc \in {"deps", "loop", "build", "wait"})
                         => prompts[1] = <<"continue-missing-tools", "yes">>
    /\ skip_checks =>
           /\ probes = <<>>
           /\ Asked("continue-missing-tools") = {}
           /\ pc \notin {"start", "analyze"} /\ apps_to_process # <<>> => tools = AllTools

C15_Witness ==
    /\ ~skip_checks
    /\ Len(apps_to_process) = 2
    /\ apps_to_process[1].dir = "ts" /\ apps_to_process[2].dir = "cargo"
    /\ ~tools.node /\ tools.cargo /\ tools.cargo_component
    /\ prompts[1] = <<"continue-missing-tools", "yes">>
    /\ SummaryReached
    /\ ~build_results[1].success /\ BuildStarted(2)

\* The state of the i-th selected application in the build loop.
AppState(i) ==
    IF i \in DOMAIN build_results THEN
        IF build_results[i].app_type = "unknown" THEN "Skipped"
        ELSE IF build_results[i].success THEN "Success" ELSE "Failed"
    ELSE IF pc = "loop" /\ idx = i THEN "Detecting"
    ELSE IF pc \in {"build", "wait"} /\ idx = i THEN "Building"
    ELSE "Pending"

AppMoves ==
    {<<"Pending", "Detecting">>, <<"Detecting", "Skipped">>,
     <<"Detecting", "Building">>, <<"Building", "Success">>,
     <<"Building", "Failed">>}

\* The build subprocesses started for the i-th selected application.
Spawns(i) ==
    Cardinality({k \in DOMAIN procs : procs[k].kind = "build" /\ procs[k].app = i})
    + (IF child # NoChild /\ child.app = i THEN 1 ELSE 0)

AppStateInv ==
    \A i \in DOMAIN apps_to_process :
        /\ Spawns(i) <= 1
        /\ (child # NoChild /\ child.app = i) => AppState(i) = "Building"
        /\ (\E k \in DOMAIN procs : procs[k].kind = "build" /\ procs[k].app = i)
               => AppState(i) \in {"Success", "Failed"}
        /\ i \in DOMAIN build_results =>
               build_results[i].app = AppSlug(apps_to_process[i])
        /\ SummaryReached =>
               /\ AppState(i) \in {"Skipped", "Success", "Failed"}
               /\ Len(build_results) = Len(apps_to_process)
        /\ ~DirExists(apps_to_process[i].dir) =>
               /\ Spawns(i) = 0
               /\ AppState(i) \in {"Pending", "Detecting", "Skipped"}
               /\ i \in DOMAIN build_results =>
                      build_results[i]
                          = BuildResult(AppSlug(apps_to_process[i]), FALSE, "unknown")

AppStateStep ==
    \A i \in DOMAIN apps_to_process' :
        /\ AppState(i)' # AppState(i) => <<AppState(i), AppState(i)'>> \in AppMoves
        /\ Spawns(i)' # Spawns(i) =>
               /\ AppState(i) = "Building"
               /\ Spawns(i)' = Spawns(i) + 1

\* C16: every selected application moves only along Pending, Detecting,
\* Skipped, or Pending, Detecting, Building and then Success or Failed; at
\* the summary each is in one terminal state with the one result that bears
\* its identifier; a build subprocess is started at most once for it and
\* only while it is Building; an application whose root directory does not
\* exist gets the failed result of type unknown and is never Building.
C16_AppStateMachine == []AppStateInv /\ [][AppStateStep]_vars

C16_Witness ==
    /\ SummaryReached /\ Len(apps_to_process) = 2
    /\ ~DirExists(apps_to_process[1].dir)
    /\ AppState(1) = "Skipped" /\ AppState(2) = "Failed"
    /\ Spawns(2) = 1

\* C17: the result of an application whose build subprocess exited non-zero
\* or could not be spawned is a failure, and a result is a success only if
\* the build subprocess of that application was spawned and exited with 0.
C17_FailureClassification ==
    \A i \in DOMAIN build_results :
        /\ (\E k \in DOMAIN procs :
                /\ procs[k].kind = "build" /\ procs[k].app = i
                /\ procs[k].outcome \in {"exitN", "spawnerr"})
               => ~build_results[i].success
        /\ build_results[i].success => BuildExitedZero(i)

\* The command lines of the build subprocesses, ended or running.
BuildLines ==
    {[cmd |-> procs[k].cmd, app |-> procs[k].app, appArg |-> procs[k].appArg] :
         k \in {l \in DOMAIN procs : procs[l].kind = "build"}}
    \cup (IF child = NoChild THEN {}
          ELSE {[cmd |-> child.cmd, app |-> child.app, appArg |-> child.appArg]})

\* C18: the build subprocess of an assemblyscript application is the build
\* script of the package manager, npm when none was resolved, and is given
\* the identifier of the application as --app, whether or not the current
\* directory has a package.json.
C18_AppArgAlways ==
    \A b \in BuildLines :
        AppType(apps_to_process[b.app].dir) = "assemblyscript" =>
            /\ b.cmd = (IF has_package_json THEN package_manager ELSE "npm")
            /\ b.cmd \in {"npm", "yarn", "pnpm"}
            /\ b.appArg = AppSlug(apps_to_process[b.app])

\* The tools of the i-th selected application's type were probed missing.
ProbedMissing(i) ==
    LET type == AppType(apps_to_process[i].dir)
    IN \/ type = "rust" /\ (~tools.cargo \/ ~tools.cargo_component)
       \/ type = "assemblyscript" /\ (~tools.node \/ ~tools.npm)

\* C19: no build subprocess is ever started for an application whose tools
\* were probed missing: the loop is reached only after 'Continue anyway?' was
\* confirmed, and the application gets a failed result of its type straight
\* from the build step. cargo-component is not probed and counts as missing
\* whenever cargo is missing.
C19_NoSpawnWithoutTools ==
    /\ \A i \in DOMAIN apps_to_process :
           ProbedMissing(i) =>
               /\ ~skip_checks
               /\ Spawns(i) = 0
               /\ ~(child # NoChild /\ child.app = i)
               /\ pc \in {"loop", "build", "wait"} =>
                      prompts[1] = <<"continue-missing-tools", "yes">>
               /\ i \in DOMAIN build_results =>
                      build_results[i]
                          = BuildResult(AppSlug(apps_to_process[i]), FALSE,
                                        AppType(apps_to_process[i].dir))
    /\ ~tools.cargo =>
           /\ ~tools.cargo_component
           /\ \A k \in DOMAIN probes : probes[k] # "cargo-component"

C19_Witness ==
    /\ SummaryReached /\ Len(apps_to_process) = 2
    /\ apps_to_process[1].dir = "cargo" /\ apps_to_process[2].dir = "ts"
    /\ ~tools.cargo /\ tools.node /\ tools.npm
    /\ probes = <<"node", "npm", "cargo">>
    /\ prompts[1] = <<"continue-missing-tools", "yes">>
    /\ build_results[1] = BuildResult(AppSlug(apps_to_process[1]), FALSE, "rust")
    /\ Spawns(1) = 0 /\ Spawns(2) = 1

\* C12: after create_template has succeeded, update_file has replaced the
\* tokens of every text file that came with the extracted tree: none of them
\* is left as it was copied, or with something else done to it.
C12_FullySubstituted ==
    tpc = "ok" => \A f \in bundle.files : tfiles[f] = "subst"

\* What the code does: the tokens of klave.json and of package.json are
\* replaced and every other file of the tree is as it was copied, but for
\* the name replaced in Cargo.toml by the rust template.
OnlyNamedFilesUpdated ==
    tpc = "ok" =>
        /\ tfiles["klave.json"] = "subst"
        /\ tfiles["package.json"] \in {"absent", "subst"}
        /\ "README.md" \in bundle.files => tfiles["README.md"] = "raw"
        /\ "Cargo.toml" \in bundle.files =>
               tfiles["Cargo.toml"]
                   = (IF template_type = "rust" THEN "patched" ELSE "raw")

\* The placeholder application directory is not in the target directory.
PlaceholderAbsent == tapps[Placeholder(template_type)] = "absent"

C13Inv ==
    /\ terr = "AppDirMissing" => (tpc = "failed" /\ PlaceholderAbsent)
    /\ tpc = "ok" => tapps[project_name] # "absent"

C13Step ==
    /\ (tpc = "copied" /\ PlaceholderAbsent) =>
           /\ tapps' = tapps
           /\ tpc' \in {"updated", "failed"}
    /\ (tpc = "updated" /\ PlaceholderAbsent) =>
           /\ tpc' = "failed" /\ terr' = "AppDirMissing"
           /\ tapps' = tapps
    /\ (tpc' = "ok" /\ tpc # "ok") =>
           /\ tpc = "updated" /\ ~PlaceholderAbsent
           /\ tapps'[project_name] = tapps[Placeholder(template_type)]
           /\ project_name # Placeholder(template_type) =>
                  tapps'[Placeholder(template_type)] = "absent"

LookupFailed ==
    \/ author_email = ""
    \/ response.kind \in {"senderr", "notjson", "noitems"}
    \/ response.kind = "items" /\ response.items = <<>>
    \/ response.kind = "items" /\ response.items # <<>> /\ response.items[1] = NoVal

\* C20: find_github_profile_url returns the empty string on every failure
\* (no email, a failed request, a body that is not JSON, no or empty items,
\* no login in the first item) and a profile URL otherwise; with an empty
\* email no request is sent and otherwise exactly one; the prompt then
\* offers the fixed profile URL for the empty string, and create fails at
\* that point only when the prompt itself fails.
C20_LookupBestEffort ==
    /\ author_email = "" => requests = 0 /\ response = NoResponse
    /\ requests <= 1
    /\ gpc \in {"returned", "asked", "failed"} =>
           /\ author_email # "" => requests = 1
           /\ LookupFailed => default_author_url = EmptyString
           /\ ~LookupFailed => default_author_url = GithubUrl(response.items[1])
    /\ gpc \in {"asked", "failed"} =>
           /\ LookupFailed => url_default = DefaultProfileUrl
           /\ ~LookupFailed => url_default = default_author_url
           /\ url_default # EmptyString
    /\ gpc = "failed" <=> gerr # "none"
    /\ gpc \in {"start", "responded", "returned"} => gerr = "none"

C20_Witness ==
    /\ gpc = "asked"
    /\ author_email # "" /\ requests = 1
    /\ response.kind = "items" /\ Len(response.items) = 2
    /\ response.items[1] = NoVal /\ response.items[2] = "octocat"
    /\ default_author_url = EmptyString
    /\ author_url = DefaultProfileUrl

\* Some selected application is built by the loop with the given toolchain.
BuiltAs(type) ==
    \E a \in Range(apps_to_process) : DirExists(a.dir) /\ AppType(a.dir) = type

\* C21: the checks before the loop ask for what the loop will use and no
\* more: missing tools are reported only when a tool of the type of some
\* selected application, as the loop detects it, was not found, and
\* node_modules is looked for, and an install asked for or run, only when
\* some selected application is built as assemblyscript; a directory with
\* both Cargo.toml and tsconfig.json, built as rust, asks for neither.
C21_ChecksMatchLoop ==
    /\ Asked("continue-missing-tools") # {} => RequiredToolMissing
    /\ deps_installed # "unchecked" => BuiltAs("assemblyscript")
    /\ (Installs # {} \/ Asked("install-now") # {}) => BuiltAs("assemblyscript")

\* The part of C21 that holds: the checks and the loop agree whenever no
\* selected directory holds both marker files.
ChecksMatchLoopUnlessBoth ==
    (\A a \in Range(apps_to_process) : ~(HasCargoToml(a.dir) /\ HasTsconfig(a.dir)))
        => C21_ChecksMatchLoop

\* Nothing has been shown, run, sent or written by create.
CreateUntouched ==
    /\ cprompts = <<>> /\ gpc = "idle" /\ requests = 0
    /\ csubs = <<>>
    /\ ~target_made
    /\ tpc = "idle"
    /\ tfiles = [f \in RootFiles |-> "absent"]
    /\ tapps = [n \in AppNames |-> "absent"]

\* C22: with klave.json in the current directory create returns the error
\* 'Already in a Klave project', which main prints before it exits with 1,
\* and up to the end no prompt has been shown, no request sent, no
\* subprocess run, no directory made and no template extracted or copied.
C22_AlreadyInProject ==
    cwd_klave =>
        /\ CreateUntouched
        /\ cpc \in {"start", "returned", "exited"}
        /\ cpc # "start" => cerr = "AlreadyInProject"
        /\ cpc = "exited" =>
               /\ cexit = 1
               /\ cstderr = <<"found-klave-json", "error">>

C22_Witness ==
    /\ cwd_klave
    /\ cpc = "exited" /\ cexit = 1
    /\ cerr = "AlreadyInProject"
    /\ CreateUntouched

====
